---- MODULE Spec2Model ----
(***************************************************************************)
(* Zoom Phone call-queue AHT dashboard (src/streamlit_app2.py): the        *)
(* credential exchange with its 55-minute cache, the cursor-paginated      *)
(* analytics fetch with its 90-second cache, and build_aht_df.             *)
(***************************************************************************)
EXTENDS Integers, Sequences, FiniteSets, TLC

VARIABLES
    now,          \* wall clock, seconds
    ticks,        \* number of clock advances so far (bounds the exploration)
    pc,           \* where the script run is: "idle", "token_post", "page_get", "sleep"
    token_cache,  \* st.cache_data store of get_access_token, keyed on its arguments
    result_cache, \* st.cache_data store of list_call_queue_analytics, keyed on its arguments
    zoom_token,   \* st.session_state["zoom_token"]
    zoom_creds,   \* st.session_state["zoom_creds"]
    cq_items,     \* st.session_state["cq_items"]
    auth_call,    \* the current / most recent get_access_token call and what it did
    fetch_call,   \* the current / most recent list_call_queue_analytics call and what it did
    items,        \* local of list_call_queue_analytics
    next_token,   \* local of list_call_queue_analytics
    reqs,         \* page requests issued by the current / most recent fetch, in order
    resps,        \* page responses received by the current / most recent fetch, in order
    norm,         \* the current / most recent build_aht_df call
    callers,      \* other sessions of the same server process, each in get_access_token
    exchanges     \* the token exchanges completed for those sessions: what each one stored

vars == <<now, ticks, pc, token_cache, result_cache, zoom_token, zoom_creds, cq_items,
          auth_call, fetch_call, items, next_token, reqs, resps, norm, callers, exchanges>>

authVars  == <<token_cache, zoom_token, zoom_creds, auth_call, callers, exchanges>>
fetchVars == <<result_cache, cq_items, fetch_call, items, next_token, reqs, resps>>

-----------------------------------------------------------------------------
(* Bounds of the exploration *)

MaxTicks == 2
MaxPages == 3
MaxSessions == 2

(* Program constants *)

TOKEN_TTL == 3300
RESULT_TTL == 90
PAGE_SIZE_CAP == 300

-----------------------------------------------------------------------------
(* Values *)

Null == "<None>"                        \* Python's None, where a string is expected

Truthy(s) == s \notin {Null, ""}        \* bool(s) for s a str or None

\* str.strip() on the strings the model uses
Strip(s) ==
    CASE s = "acct2 " -> "acct2"
      [] s = " "      -> ""
      [] OTHER        -> s

Creds(a, c, s) == [account_id |-> a, client_id |-> c, client_secret |-> s]

\* what the form can hold: two complete tuples, and tuples with a field empty or None
CompleteCreds == {Creds("acct1", "cid", "sec"), Creds("acct2 ", "cid", "sec")}

IncompleteCreds ==
    {Creds("", "cid", "sec"), Creds("acct1", "", "sec"), Creds("acct1", "cid", ""),
     Creds("acct1", "cid", Null), Creds("", "", "")}

AllCreds == CompleteCreds \cup IncompleteCreds

\* the account of the runs that use one account
TheCreds == Creds("acct1", "cid", "sec")

NoCreds == [account_id |-> Null, client_id |-> Null, client_secret |-> Null]

Tokens  == {"t1", "t2"}

\* the clock advances the model explores: inside the result ttl, and up to the token ttl
ShortStep == RESULT_TTL \div 2
LongStep  == TOKEN_TTL - ShortStep

-----------------------------------------------------------------------------
(* st.cache_data(ttl=...) : one entry per argument tuple, stamped when stored, *)
(* served while younger than ttl; a call that raises stores nothing.          *)

NoEntry == [present |-> FALSE, value |-> Null, at |-> 0]

CacheFresh_Inclusive(e, ttl, t) == e.present /\ t <= e.at + ttl

CacheFresh(e, ttl, t) == e.present /\ t < e.at + ttl

CacheStore(cache, key, v, t) == [cache EXCEPT ![key] = [present |-> TRUE, value |-> v, at |-> t]]

-----------------------------------------------------------------------------
(* get_access_token and the credentials form *)

HasCredentials_NoSecret(c) == Truthy(c.account_id) /\ Truthy(c.client_id)

\* line 35: account_id and client_id and client_secret
HasCredentials(c) == Truthy(c.account_id) /\ Truthy(c.client_id) /\ Truthy(c.client_secret)

\* _save_creds
SavedCreds(c) ==
    [account_id    |-> Strip(c.account_id),
     client_id     |-> Strip(c.client_id),
     client_secret |-> Strip(c.client_secret)]

\* n tells one call from the next; expired: the call found an entry past its ttl
NoAuthCall ==
    [n |-> 0, creds |-> NoCreds, remember |-> FALSE, expired |-> FALSE, posts |-> 0,
     status |-> "none", error |-> "", result |-> Null]

\* lines 152-155: the handler after get_access_token returned tok
Authenticated(c, remember, tok) ==
    /\ zoom_creds' = IF remember THEN SavedCreds(c) ELSE zoom_creds
    /\ zoom_token' = tok

\* "Save & Authenticate" pressed: get_access_token(c) is called
SubmitCreds(c, remember) ==
    /\ pc = "idle"
    /\ LET e    == token_cache[c]
           call == [n |-> 1 - auth_call.n, creds |-> c, remember |-> remember,
                    expired |-> e.present /\ ~CacheFresh(e, TOKEN_TTL, now), posts |-> 0,
                    status |-> "running", error |-> "", result |-> Null]
       IN  IF CacheFresh(e, TOKEN_TTL, now)
           THEN \* served from the cache: the body does not run
                /\ auth_call' = [call EXCEPT !.status = "returned", !.result = e.value]
                /\ Authenticated(c, remember, e.value)
                /\ pc' = pc
           ELSE IF ~HasCredentials(c)
           THEN \* line 36 raises; line 158 reports it
                /\ auth_call' = [call EXCEPT !.status = "raised", !.error = "RuntimeError"]
                /\ UNCHANGED <<zoom_creds, zoom_token>>
                /\ pc' = pc
           ELSE \* line 40: the POST goes out
                /\ auth_call' = [call EXCEPT !.posts = 1]
                /\ UNCHANGED <<zoom_creds, zoom_token>>
                /\ pc' = "token_post"
    /\ UNCHANGED <<now, ticks, token_cache, fetchVars, norm, callers, exchanges>>

\* the token endpoint answers 2xx with access_token = tok
TokenIssued(tok) ==
    /\ pc = "token_post"
    /\ token_cache' = CacheStore(token_cache, auth_call.creds, tok, now)
    /\ auth_call' = [auth_call EXCEPT !.status = "returned", !.result = tok]
    /\ Authenticated(auth_call.creds, auth_call.remember, tok)
    /\ pc' = "idle"
    /\ UNCHANGED <<now, ticks, fetchVars, norm, callers, exchanges>>

NetErrors == {"HTTPError", "Timeout"}

TokenRefused_CachesFailure(error) ==
    /\ pc = "token_post"
    /\ token_cache' = CacheStore(token_cache, auth_call.creds, Null, now)
    /\ auth_call' = [auth_call EXCEPT !.status = "raised", !.error = error]
    /\ pc' = "idle"
    /\ UNCHANGED <<now, ticks, zoom_token, zoom_creds, fetchVars, norm, callers, exchanges>>

\* the token endpoint answers non-2xx (raise_for_status) or the request times out
TokenRefused(error) ==
    /\ pc = "token_post"
    /\ auth_call' = [auth_call EXCEPT !.status = "raised", !.error = error]
    /\ pc' = "idle"
    /\ UNCHANGED <<now, ticks, token_cache, zoom_token, zoom_creds, fetchVars, norm, callers, exchanges>>

\* time passes between two interactions with the page
Tick(d) ==
    /\ pc = "idle"
    /\ ticks < MaxTicks
    /\ now' = now + d
    /\ ticks' = ticks + 1
    /\ UNCHANGED <<pc, authVars, fetchVars, norm>>

-----------------------------------------------------------------------------
(* get_access_token called from several sessions at once: every session runs the   *)
(* script in a thread of its own, and the st.cache_data store is one per process.  *)
(* No lock is modelled around the body: a caller that finds the entry written by   *)
(* another caller meanwhile is the case a per-key lock would add, and it is here.  *)

Sessions == 1..MaxSessions

\* one session: its position, its call and its st.session_state["zoom_token"]
NoCaller ==
    [pc |-> "idle", creds |-> NoCreds, posts |-> 0, status |-> "none", result |-> Null,
     zoom_token |-> Null]

\* what a completed exchange stored: the key, the token and the stamp
Exchange(c, tok, t) == [creds |-> c, value |-> tok, at |-> t]

\* session s presses "Save & Authenticate": get_access_token(c) is called
SessionSubmits(s, c) ==
    /\ callers[s].pc = "idle"
    /\ LET e    == token_cache[c]
           call == [callers[s] EXCEPT !.creds = c, !.posts = 0, !.status = "running",
                                      !.result = Null]
       IN  IF CacheFresh(e, TOKEN_TTL, now)
           THEN callers' = [callers EXCEPT ![s] = [call EXCEPT !.status = "returned",
                                                               !.result = e.value,
                                                               !.zoom_token = e.value]]
           ELSE IF ~HasCredentials(c)
           THEN callers' = [callers EXCEPT ![s] = [call EXCEPT !.status = "raised"]]
           ELSE callers' = [callers EXCEPT ![s] = [call EXCEPT !.posts = 1,
                                                               !.pc = "token_post"]]
    /\ UNCHANGED <<now, ticks, pc, token_cache, zoom_token, zoom_creds, auth_call, exchanges,
                   fetchVars, norm>>

SessionIssued_KeepsStamp(s, tok) ==
    /\ callers[s].pc = "token_post"
    /\ token_cache' = [token_cache EXCEPT ![callers[s].creds] =
                            [present |-> TRUE, value |-> tok,
                             at |-> IF @.present THEN @.at ELSE now]]
    /\ exchanges' = exchanges \cup {Exchange(callers[s].creds, tok, now)}
    /\ callers' = [callers EXCEPT ![s] = [@ EXCEPT !.pc = "idle", !.status = "returned",
                                                   !.result = tok, !.zoom_token = tok]]
    /\ UNCHANGED <<now, ticks, pc, zoom_token, zoom_creds, auth_call, fetchVars, norm>>

\* the token endpoint answers session s's POST 2xx with access_token = tok: the
\* return value is stored as one entry and handed to the session
SessionIssued(s, tok) ==
    /\ callers[s].pc = "token_post"
    /\ token_cache' = CacheStore(token_cache, callers[s].creds, tok, now)
    /\ exchanges' = exchanges \cup {Exchange(callers[s].creds, tok, now)}
    /\ callers' = [callers EXCEPT ![s] = [@ EXCEPT !.pc = "idle", !.status = "returned",
                                                   !.result = tok, !.zoom_token = tok]]
    /\ UNCHANGED <<now, ticks, pc, zoom_token, zoom_creds, auth_call, fetchVars, norm>>

\* session s's POST answers non-2xx or times out
SessionRefused(s) ==
    /\ callers[s].pc = "token_post"
    /\ callers' = [callers EXCEPT ![s] = [@ EXCEPT !.pc = "idle", !.status = "raised"]]
    /\ UNCHANGED <<now, ticks, pc, token_cache, zoom_token, zoom_creds, auth_call, exchanges,
                   fetchVars, norm>>

-----------------------------------------------------------------------------
(* list_call_queue_analytics and the fetch button *)

Date(y, m, d) == [year |-> y, month |-> m, day |-> d]

\* date.strftime("%Y-%m-%d"): the characters of the text, digits as numbers
StrfTime(d) ==
    <<d.year \div 1000, (d.year \div 100) % 10, (d.year \div 10) % 10, d.year % 10, "-",
      d.month \div 10, d.month % 10, "-", d.day \div 10, d.day % 10>>

Window(f, t, n) == [date_from |-> f, date_to |-> t, page_size |-> n]

\* the date inputs and the page-size slider: the default week at 100, one day at 300
Windows ==
    {Window(Date(2025, 1, 5), Date(2025, 1, 12), 100),
     Window(Date(2025, 1, 12), Date(2025, 1, 12), 300)}

\* list_call_queue_analytics takes any page_size; the slider stops at the cap, so a
\* larger one comes from a call that does not go through the slider
WideWindow == Window(Date(2025, 1, 5), Date(2025, 1, 12), 500)

AllWindows == Windows \cup {WideWindow}

Min_Second(a, b) == b

Min(a, b) == IF a < b THEN a ELSE b

\* a JSON member holding a list: absent, or a list
Absent == [present |-> FALSE, v |-> <<>>]
Lst(v) == [present |-> TRUE, v |-> v]

TruthyList(f) == f.present /\ Len(f.v) > 0

Body(a, q, l, c, cursor) ==
    [analytics |-> a, queues |-> q, list |-> l, call_queues |-> c, next_page_token |-> cursor]

EmptyBody == Body(Absent, Absent, Absent, Absent, Null)

\* what the analytics endpoint may put in a 2xx body (records are opaque here)
PageLists ==
    {Body(Lst(<<"r1", "r2">>), Absent, Absent, Absent, Null),
     Body(Lst(<<>>), Lst(<<"r3">>), Absent, Absent, Null),
     Body(Absent, Absent, Lst(<<"r2">>), Absent, Null),
     Body(Absent, Absent, Absent, Lst(<<"r1">>), Null),
     Body(Lst(<<"r1">>), Lst(<<"r3">>), Absent, Lst(<<"r2">>), Null),
     EmptyBody}

Cursors == {Null, "", "c1", "c2"}

PageBodies == {[b EXCEPT !.next_page_token = k] : b \in PageLists, k \in Cursors}

\* a provider whose answer is one page, fixed by the dates asked for
DataOf(w) ==
    IF w.date_from = w.date_to
    THEN Body(Absent, Lst(<<"r2">>), Absent, Absent, "")
    ELSE Body(Lst(<<"r1">>), Absent, Absent, Absent, Null)

\* lines 79-83: data.get("analytics") or data.get("queues") or ... or []
ExtractRecords(data) ==
    IF TruthyList(data.analytics) THEN data.analytics.v
    ELSE IF TruthyList(data.queues) THEN data.queues.v
    ELSE IF TruthyList(data.list) THEN data.list.v
    ELSE IF TruthyList(data.call_queues) THEN data.call_queues.v
    ELSE <<>>

Extend_Prepend(acc, recs) == recs \o acc

\* line 78: items.extend(...)
Extend(acc, recs) == acc \o recs

LoopEnds_NoneOnly(cursor) == cursor = Null

\* line 87: if not next_token: break
LoopEnds(cursor) == ~Truthy(cursor)

Request_FirstPageAgain(token, w, cursor) ==
    [authorization   |-> <<"Bearer", token>>,
     from            |-> StrfTime(w.date_from),
     to              |-> StrfTime(w.date_to),
     page_size       |-> Min(w.page_size, PAGE_SIZE_CAP),
     next_page_token |-> Null]

\* lines 66-74: the GET's headers and query parameters
Request(token, w, cursor) ==
    [authorization   |-> <<"Bearer", token>>,
     from            |-> StrfTime(w.date_from),
     to              |-> StrfTime(w.date_to),
     page_size       |-> Min(w.page_size, PAGE_SIZE_CAP),
     next_page_token |-> IF Truthy(cursor) THEN cursor ELSE Null]

Answer(data)  == [ok |-> TRUE, error |-> "", data |-> data]
Failure(error) == [ok |-> FALSE, error |-> error, data |-> EmptyBody]

ResultKey_WindowOnly(token, w) == <<"t1", w>>

\* the arguments st.cache_data hashes: token, date_from, date_to, page_size
ResultKey(token, w) == <<token, w>>

FetchKeys == Tokens \X AllWindows

NoResult == [present |-> FALSE, value |-> <<>>, at |-> 0]

NoItems == Absent

\* n tells one call from the next; hit: served from the cache
NoFetchCall ==
    [n |-> 0, token |-> Null, window |-> Window(Date(0, 0, 0), Date(0, 0, 0), 0),
     hit |-> FALSE, status |-> "none", error |-> ""]

\* "Fetch Call Queue Analytics" pressed (enabled only with a token):
\* list_call_queue_analytics(token, date_from, date_to, page_size) is called
ClickFetch(w) ==
    /\ pc = "idle"
    /\ Truthy(zoom_token)
    /\ LET e    == result_cache[ResultKey(zoom_token, w)]
           call == [n |-> 1 - fetch_call.n, token |-> zoom_token, window |-> w,
                    hit |-> FALSE, status |-> "running", error |-> ""]
       IN  IF CacheFresh(e, RESULT_TTL, now)
           THEN \* served from the cache: the body does not run
                /\ fetch_call' = [call EXCEPT !.hit = TRUE, !.status = "returned"]
                /\ cq_items' = Lst(e.value)
                /\ reqs' = <<>>
                /\ pc' = pc
           ELSE \* lines 62-74: the first GET goes out, without a cursor
                /\ fetch_call' = call
                /\ cq_items' = cq_items
                /\ reqs' = <<Request(zoom_token, w, Null)>>
                /\ pc' = "page_get"
    /\ items' = <<>>
    /\ next_token' = Null
    /\ resps' = <<>>
    /\ UNCHANGED <<now, ticks, result_cache, authVars, norm>>

\* lines 76-88 and 187: a 2xx page arrives
PageAnswered(data) ==
    /\ pc = "page_get"
    /\ resps' = Append(resps, Answer(data))
    /\ items' = Extend(items, ExtractRecords(data))
    /\ next_token' = data.next_page_token
    /\ IF LoopEnds(data.next_page_token)
       THEN \* return items: stored by st.cache_data, assigned to the session
            /\ result_cache' = CacheStore(result_cache,
                                          ResultKey(fetch_call.token, fetch_call.window),
                                          items', now)
            /\ cq_items' = Lst(items')
            /\ fetch_call' = [fetch_call EXCEPT !.status = "returned"]
            /\ pc' = "idle"
       ELSE \* line 90: time.sleep(0.2)
            /\ pc' = "sleep"
            /\ UNCHANGED <<result_cache, cq_items, fetch_call>>
    /\ UNCHANGED <<now, ticks, reqs, authVars, norm>>

PageFailed_KeepsPartial(error) ==
    /\ pc = "page_get"
    /\ resps' = Append(resps, Failure(error))
    /\ fetch_call' = [fetch_call EXCEPT !.status = "raised", !.error = error]
    /\ cq_items' = Lst(items)
    /\ pc' = "idle"
    /\ UNCHANGED <<now, ticks, result_cache, items, next_token, reqs, authVars, norm>>

PageFailed_StoresPartial(error) ==
    /\ pc = "page_get"
    /\ resps' = Append(resps, Failure(error))
    /\ fetch_call' = [fetch_call EXCEPT !.status = "raised", !.error = error]
    /\ result_cache' = CacheStore(result_cache,
                                  ResultKey(fetch_call.token, fetch_call.window), items, now)
    /\ pc' = "idle"
    /\ UNCHANGED <<now, ticks, cq_items, items, next_token, reqs, authVars, norm>>

\* lines 74-75 and 188-191: the GET answers non-2xx or times out; the handler reports it
PageFailed(error) ==
    /\ pc = "page_get"
    /\ resps' = Append(resps, Failure(error))
    /\ fetch_call' = [fetch_call EXCEPT !.status = "raised", !.error = error]
    /\ pc' = "idle"
    /\ UNCHANGED <<now, ticks, result_cache, cq_items, items, next_token, reqs, authVars, norm>>

\* lines 66-74 after the sleep: the next GET goes out, with the cursor just read
NextPage ==
    /\ pc = "sleep"
    /\ Len(reqs) < MaxPages
    /\ reqs' = Append(reqs, Request(fetch_call.token, fetch_call.window, next_token))
    /\ pc' = "page_get"
    /\ UNCHANGED <<now, ticks, result_cache, cq_items, fetch_call, items, next_token, resps,
                   authVars, norm>>

-----------------------------------------------------------------------------
(* build_aht_df *)

MaxItems == 2

\* a JSON value under a key of a raw record, or the key's absence
Missing == [t |-> "missing", s |-> "", n |-> 0]
NullV   == [t |-> "null", s |-> "", n |-> 0]
Str(s)  == [t |-> "str", s |-> s, n |-> 0]
Num(n)  == [t |-> "num", s |-> "", n |-> n]
Inf     == [t |-> "inf", s |-> "", n |-> 0]       \* float("inf"), JSON 1e999
NaN     == [t |-> "nan", s |-> "", n |-> 0]       \* float("nan"), JSON NaN
Obj     == [t |-> "obj", s |-> "", n |-> 0]       \* a non-empty JSON object

Raw(qid, cqid, id, qn, nm, cqn, a1, a2, a3) ==
    [queue_id |-> qid, call_queue_id |-> cqid, id |-> id,
     queue_name |-> qn, name |-> nm, call_queue_name |-> cqn,
     avg_handle_time |-> a1, average_handle_time |-> a2, avg_handle_time_seconds |-> a3]

\* records that differ in their name keys
NameRecords ==
    {Raw(Str("1"), Missing, Missing, qn, nm, cqn, Num(300), Missing, Missing) :
        qn \in {Missing, NullV, Str(""), Str("Sales")},
        nm \in {Missing, Str("Support")},
        cqn \in {Missing, Str("CQ")}}

\* records that differ in their handle-time and id keys
TimeRecords ==
    {Raw(Missing, Missing, Str("2"), Missing, Str("Support"), Missing, a1, a2, Missing) :
        a1 \in {Missing, NullV, Num(300), Str("125"), Str("bad"), Obj, Inf, NaN},
        a2 \in {Missing, Num(150)}}
    \cup {Raw(NullV, Str("3"), Str("2"), Missing, Missing, Str(""), Missing, Missing, Str("60"))}

RawRecords == NameRecords \cup TimeRecords

RawLists == UNION {[1..n -> RawRecords] : n \in 0..MaxItems}

RECURSIVE _pick_first(_, _)
\* lines 96-100: the first key that is in d with a value other than None
_pick_first(d, keys) ==
    IF keys = <<>> THEN NullV
    ELSE IF d[Head(keys)].t \notin {"missing", "null"} THEN d[Head(keys)]
    ELSE _pick_first(d, Tail(keys))

\* bool(v)
TruthyV(v) ==
    CASE v.t \in {"missing", "null"} -> FALSE
      [] v.t = "str" -> v.s # ""
      [] v.t = "num" -> v.n # 0
      [] OTHER -> TRUE

\* a or b
Or(a, b) == IF TruthyV(a) THEN a ELSE b

\* line 117
QueueName(it) ==
    Or(_pick_first(it, <<"queue_name", "name">>),
       Or(_pick_first(it, <<"call_queue_name">>), Str("Unknown Queue")))

\* float(s) for s a str: the number, inf, nan, or ValueError (here NullV)
ParseFloat(s) ==
    CASE s = "125" -> Num(125)
      [] s = "60"  -> Num(60)
      [] s = "inf" -> Inf
      [] s = "nan" -> NaN
      [] OTHER     -> NullV

\* lines 119-122: float(aht_sec) if aht_sec is not None else None, None when it raises
ToFloat(v) ==
    CASE v.t \in {"num", "inf", "nan"} -> v
      [] v.t = "str" -> ParseFloat(v.s)
      [] OTHER -> NullV

IsNumber(v) == v.t # "null"

HandleTime_FallsThrough(it) ==
    LET numbers == SelectSeq(<<ToFloat(it.avg_handle_time), ToFloat(it.average_handle_time),
                               ToFloat(it.avg_handle_time_seconds)>>, IsNumber)
    IN  IF numbers = <<>> THEN NullV ELSE Head(numbers)

\* lines 118-122
HandleTime(it) ==
    ToFloat(_pick_first(it, <<"avg_handle_time", "average_handle_time",
                              "avg_handle_time_seconds">>))

\* line 128: round(aht_sec / 60.0, 2), a number of hundredths of a minute
Minutes(v) ==
    CASE v.t = "num" -> [t |-> "num", s |-> "", n |-> (10 * v.n + 3) \div 6]
      [] OTHER -> v

\* line 103: sec is None or pd.isna(sec)
IsNA(v) == v.t \in {"null", "nan"}

\* lines 105-108 raise OverflowError on an infinite sec: int(round(float("inf")))
FmtRaises(v) == ~IsNA(v) /\ v.t = "inf"

\* lines 102-108: None, or hours, minutes and seconds of the rounded value
_fmt_hms(v) ==
    IF IsNA(v) THEN <<>>
    ELSE <<v.n \div 3600, (v.n % 3600) \div 60, v.n % 60>>

\* lines 116-130: the row of one raw record
Row(it) ==
    LET aht_sec == HandleTime(it)
    IN  [queue_id |-> _pick_first(it, <<"queue_id", "call_queue_id", "id">>),
         queue_name |-> QueueName(it),
         avg_handle_time_sec |-> aht_sec,
         avg_handle_time_min |-> Minutes(aht_sec),
         avg_handle_time_hms |-> _fmt_hms(aht_sec)]

\* rows: built so far; df, kept: the frame returned and the input positions of its rows;
\* first: the frame whose rows this call was given, when it was given a frame's rows
NoNorm ==
    [status |-> "none", input |-> <<>>, rows |-> <<>>, df |-> <<>>, kept |-> <<>>,
     error |-> "", again |-> FALSE, first |-> <<>>]

CallBuild(input) == [NoNorm EXCEPT !.status = "running", !.input = input]

\* lines 115-130: one turn of the loop
BuildRow ==
    /\ norm.status = "running"
    /\ Len(norm.rows) < Len(norm.input)
    /\ LET it == norm.input[Len(norm.rows) + 1]
       IN  IF FmtRaises(HandleTime(it))
           THEN norm' = [norm EXCEPT !.status = "raised", !.error = "OverflowError"]
           ELSE norm' = [norm EXCEPT !.rows = Append(@, Row(it))]
    /\ UNCHANGED <<now, ticks, pc, authVars, fetchVars>>

\* the positions i of rows, in order, with rows[i] not NA in avg_handle_time_sec
RECURSIVE NotNA(_, _)
NotNA(rows, i) ==
    IF i > Len(rows) THEN <<>>
    ELSE IF IsNA(rows[i].avg_handle_time_sec) THEN NotNA(rows, i + 1)
    ELSE <<i>> \o NotNA(rows, i + 1)

\* lines 132-134: pd.DataFrame(rows).dropna(subset=["avg_handle_time_sec"]); a frame
\* made from no rows has no columns, and dropna raises KeyError on the missing one
DropNA ==
    /\ norm.status = "running"
    /\ Len(norm.rows) = Len(norm.input)
    /\ IF norm.rows = <<>>
       THEN norm' = [norm EXCEPT !.status = "raised", !.error = "KeyError"]
       ELSE LET kept == NotNA(norm.rows, 1)
            IN  norm' = [norm EXCEPT !.status = "returned", !.kept = kept,
                                     !.df = [k \in 1..Len(kept) |-> norm.rows[kept[k]]]]
    /\ UNCHANGED <<now, ticks, pc, authVars, fetchVars>>

\* a row of the frame read as a raw record: of its five keys, queue_id and queue_name
\* are keys build_aht_df looks up, the three avg_handle_time_* columns are not
AsRaw(row) ==
    Raw(row.queue_id, Missing, Missing, row.queue_name, Missing, Missing,
        Missing, Missing, Missing)

\* build_aht_df is called on the rows of the frame it has just returned
FeedBack ==
    /\ norm.status = "returned"
    /\ ~norm.again
    /\ norm' = [CallBuild([k \in 1..Len(norm.df) |-> AsRaw(norm.df[k])])
                    EXCEPT !.again = TRUE, !.first = norm.df]
    /\ UNCHANGED <<now, ticks, pc, authVars, fetchVars>>

-----------------------------------------------------------------------------
(* State after the script is loaded in a new process and session *)

Init ==
    /\ now = 0
    /\ ticks = 0
    /\ pc = "idle"
    /\ token_cache = [c \in AllCreds |-> NoEntry]
    /\ result_cache = [k \in FetchKeys |-> NoResult]
    /\ zoom_token = Null
    /\ zoom_creds = NoCreds
    /\ cq_items = NoItems
    /\ auth_call = NoAuthCall
    /\ fetch_call = NoFetchCall
    /\ items = <<>>
    /\ next_token = Null
    /\ reqs = <<>>
    /\ resps = <<>>
    /\ norm = NoNorm
    /\ callers = [s \in Sessions |-> NoCaller]
    /\ exchanges = {}

-----------------------------------------------------------------------------
(* The token cache over time: every credentials tuple, both clock steps *)

NextAuth ==
    \/ \E c \in AllCreds, remember \in BOOLEAN : SubmitCreds(c, remember)
    \/ \E tok \in Tokens : TokenIssued(tok)
    \/ \E error \in NetErrors : TokenRefused(error)
    \/ \E d \in {ShortStep, LongStep} : Tick(d)

SpecAuth == Init /\ [][NextAuth]_vars

\* a get_access_token call begins in this step
AuthCallStarts == auth_call'.n # auth_call.n

\* C1, on the step a call begins: an unexpired entry for the same credentials is
\* returned as it is, with no POST and no change to the cache; an expired one makes
\* the call POST
C1_OnCall ==
    AuthCallStarts =>
        LET c == auth_call'.creds
            e == token_cache[c]
        IN  /\ (e.present /\ now < e.at + TOKEN_TTL) =>
                    /\ auth_call'.status = "returned"
                    /\ auth_call'.result = e.value
                    /\ auth_call'.posts = 0
                    /\ pc' = "idle"
                    /\ token_cache' = token_cache
            /\ (c \in CompleteCreds /\ e.present /\ now >= e.at + TOKEN_TTL) =>
                    /\ auth_call'.posts = 1
                    /\ pc' = "token_post"

\* C1, on the step an exchange succeeds: the token just issued is returned and is
\* the cache's entry for those credentials, stamped now
C1_OnIssue ==
    (pc = "token_post" /\ auth_call'.status = "returned") =>
        /\ auth_call'.result \in Tokens
        /\ token_cache'[auth_call.creds] =
               [present |-> TRUE, value |-> auth_call'.result, at |-> now]
        /\ \A c \in AllCreds \ {auth_call.creds} : token_cache'[c] = token_cache[c]

\* C1: for complete credentials, a call made while the token cached for exactly those
\* credentials is younger than 55 minutes returns that token and exchanges nothing;
\* the first call at or after 55 minutes exchanges again, and the token then issued
\* is returned and replaces the old entry.
C1_TokenCachedUntilTtl == [][C1_OnCall /\ C1_OnIssue]_vars

\* an expired entry was found, exactly at its ttl, and the exchange replaced it
C1_Witness ==
    /\ auth_call.status = "returned"
    /\ auth_call.expired
    /\ auth_call.posts = 1
    /\ now = TOKEN_TTL
    /\ token_cache[auth_call.creds] = [present |-> TRUE, value |-> auth_call.result, at |-> now]

\* C2: a get_access_token call whose credentials have an empty or missing field
\* raises the credentials error, sends no POST, and no incomplete tuple ever has a
\* cache entry.
C2_IncompleteCredsRejected ==
    /\ (auth_call.status # "none" /\ auth_call.creds \in IncompleteCreds) =>
            /\ auth_call.status = "raised"
            /\ auth_call.error = "RuntimeError"
            /\ auth_call.posts = 0
            /\ pc # "token_post"
    /\ \A c \in IncompleteCreds : ~token_cache[c].present

\* only the secret is empty, in a session that had authenticated before
C2_Witness ==
    /\ auth_call.status = "raised"
    /\ auth_call.creds = Creds("acct1", "cid", "")
    /\ zoom_token \in Tokens
    /\ token_cache[Creds("acct1", "cid", "sec")].present

\* C10, on the step an exchange fails: one POST was sent, the call raises, and
\* neither the cache nor the session's token changes
C10_OnRefusal ==
    (pc = "token_post" /\ auth_call'.status = "raised") =>
        /\ auth_call'.posts = 1
        /\ auth_call'.error \in NetErrors
        /\ pc' = "idle"
        /\ token_cache' = token_cache
        /\ zoom_token' = zoom_token
        /\ ~(token_cache'[auth_call.creds].present
              /\ now < token_cache'[auth_call.creds].at + TOKEN_TTL)

\* C10, on the step the next call begins: for the same credentials it POSTs again
C10_OnNextCall ==
    (AuthCallStarts /\ auth_call.status = "raised" /\ auth_call.error \in NetErrors
        /\ auth_call'.creds = auth_call.creds) =>
        /\ auth_call'.posts = 1
        /\ pc' = "token_post"

\* C10: a token exchange that answers non-2xx or times out makes get_access_token
\* fail after its one POST and store nothing, so the cache holds no valid token for
\* those credentials and the next call for them exchanges again.
C10_FailedExchangeNotCached == [][C10_OnRefusal /\ C10_OnNextCall]_vars

\* the exchange that failed was a refresh: the expired token is still the entry
C10_Witness ==
    /\ auth_call.status = "raised"
    /\ auth_call.error = "Timeout"
    /\ auth_call.expired
    /\ auth_call.posts = 1
    /\ token_cache[auth_call.creds].present

-----------------------------------------------------------------------------
(* Sessions racing on the token cache: all with one account's credentials, both *)
(* clock steps                                                                  *)

NextRace ==
    \/ \E s \in Sessions : SessionSubmits(s, TheCreds)
    \/ \E s \in Sessions, tok \in Tokens : SessionIssued(s, tok)
    \/ \E s \in Sessions : SessionRefused(s)
    \/ \E d \in {ShortStep, LongStep} : Tick(d)

SpecRace == Init /\ [][NextRace]_vars

\* the exchanges completed for credentials c
ExchangesOf(c) == {x \in exchanges : x.creds = c}

\* C11: whatever the interleaving of get_access_token calls from several sessions,
\* a session whose call has returned holds a token that a completed exchange for its
\* credentials issued, and the cache's one entry for a credentials key is, value
\* and stamp together, what one completed exchange for that key stored (there is an
\* entry exactly when there was such an exchange); sessions whose POSTs are out at
\* the same time are not held back from one another.
C11_RacingExchangesStoreWholeEntries ==
    /\ \A s \in Sessions :
            (callers[s].status = "returned") =>
                \E x \in ExchangesOf(callers[s].creds) : x.value = callers[s].result
    /\ \A c \in CompleteCreds :
            /\ token_cache[c].present <=> ExchangesOf(c) # {}
            /\ token_cache[c].present =>
                    \E x \in ExchangesOf(c) :
                        token_cache[c] = [present |-> TRUE, value |-> x.value, at |-> x.at]
    /\ \A s \in Sessions :
            (callers[s].pc = "token_post") =>
                \A tok \in Tokens : ENABLED SessionIssued(s, tok)

\* two sessions missed for the same credentials and both exchanged, at different
\* times and for different tokens; the entry is the later exchange's
C11_Witness ==
    \E s1, s2 \in Sessions :
        /\ s1 # s2
        /\ callers[s1].creds = callers[s2].creds
        /\ callers[s1].status = "returned" /\ callers[s1].posts = 1
        /\ callers[s2].status = "returned" /\ callers[s2].posts = 1
        /\ callers[s1].result # callers[s2].result
        /\ Exchange(callers[s1].creds, callers[s1].result, 0) \in exchanges
        /\ token_cache[callers[s2].creds] =
               [present |-> TRUE, value |-> callers[s2].result, at |-> ShortStep]
        /\ now = ShortStep

-----------------------------------------------------------------------------
(* Pagination: one account, one window, every page body and cursor, no clock *)

TheWindow == Window(Date(2025, 1, 5), Date(2025, 1, 12), 100)

NextPages ==
    \/ SubmitCreds(TheCreds, TRUE)
    \/ TokenIssued("t1")
    \/ ClickFetch(TheWindow)
    \/ \E data \in PageBodies : PageAnswered(data)
    \/ \E error \in NetErrors : PageFailed(error)
    \/ NextPage

SpecPages == Init /\ [][NextPages]_vars

RECURSIVE PagesConcat(_)
\* the record lists of the answers rs, one after the other
PagesConcat(rs) ==
    IF rs = <<>> THEN <<>> ELSE ExtractRecords(Head(rs).data) \o PagesConcat(Tail(rs))

HasCursor(r) == r.ok /\ r.data.next_page_token \notin {Null, ""}
IsLastPage(r) == r.ok /\ r.data.next_page_token \in {Null, ""}

\* C3: once the provider has answered N pages, all 2xx, the first N-1 with a cursor
\* and the N-th without, the fetch has returned after exactly N requests, and what it
\* returned (and stored) is the N record lists concatenated in the order received.
C3_PagesConcatenatedInOrder ==
    LET n == Len(resps)
    IN  (/\ n >= 1
         /\ \A i \in 1..(n - 1) : HasCursor(resps[i])
         /\ IsLastPage(resps[n])) =>
            /\ fetch_call.status = "returned"
            /\ pc = "idle"
            /\ Len(reqs) = n
            /\ cq_items = Lst(PagesConcat(resps))
            /\ result_cache[<<fetch_call.token, fetch_call.window>>].value = PagesConcat(resps)

\* three pages whose record lists differ, the second from the queues member
C3_Witness ==
    /\ fetch_call.status = "returned"
    /\ Len(resps) = 3
    /\ ExtractRecords(resps[1].data) = <<"r1", "r2">>
    /\ ExtractRecords(resps[2].data) = <<"r3">>
    /\ ExtractRecords(resps[3].data) = <<"r1">>
    /\ cq_items.v = <<"r1", "r2", "r3", "r1">>

\* C4: the loop ends normally exactly when a 2xx page without a cursor (absent or
\* empty) arrives, and at the first one: while every page so far carried a cursor
\* the fetch is still running, whatever the number of pages, and with the next
\* request due it can always be sent; nothing caps the page count.
C4_LoopEndsAtFirstPageWithoutCursor ==
    LET n == Len(resps)
    IN  /\ \A i \in 1..(n - 1) : HasCursor(resps[i])
        /\ (pc \in {"page_get", "sleep"}) => \A i \in 1..n : HasCursor(resps[i])
        /\ (n >= 1 /\ resps[n].ok) =>
                /\ (fetch_call.status = "returned") <=> IsLastPage(resps[n])
                /\ (fetch_call.status = "running") <=> HasCursor(resps[n])
        /\ (n >= 1 /\ HasCursor(resps[n])) =>
                /\ pc \in {"page_get", "sleep"}
                /\ (pc = "sleep") => (Len(reqs) = n /\ next_token = resps[n].data.next_page_token)
                /\ (pc = "page_get") => Len(reqs) = n + 1
                /\ (pc = "sleep" /\ n < MaxPages) => ENABLED NextPage
        /\ (fetch_call.status = "returned" /\ ~fetch_call.hit) => (n >= 1 /\ IsLastPage(resps[n]))

\* the loop went on through two pages with a cursor and ended on an empty cursor
C4_Witness ==
    /\ fetch_call.status = "returned"
    /\ Len(resps) = 3
    /\ resps[3].data.next_page_token = ""
    /\ resps[1].data.next_page_token = "c1"
    /\ resps[2].data.next_page_token = "c1"

\* C5, on the step a page request fails: the fetch ends there, the session's record
\* list and the result cache are what they were, and no request is added
C5_OnFailure ==
    (pc = "page_get" /\ fetch_call'.status = "raised") =>
        /\ fetch_call'.error \in NetErrors
        /\ pc' = "idle"
        /\ reqs' = reqs
        /\ cq_items' = cq_items
        /\ result_cache' = result_cache

\* C5, afterwards: the failed request is the last one of that fetch
C5_AfterFailure ==
    (fetch_call.status = "raised") =>
        /\ pc = "idle"
        /\ Len(reqs) = Len(resps)
        /\ ~resps[Len(resps)].ok
        /\ \A i \in 1..(Len(resps) - 1) : HasCursor(resps[i])

\* C5: a page request that answers non-2xx or times out, after any number of pages,
\* ends the fetch at that request: no further request, the error reaches the handler,
\* and the records accumulated so far are neither returned nor stored.
C5_FailedPageAbortsFetch == [](C5_AfterFailure) /\ [][C5_OnFailure]_vars

\* the third request failed with records of two pages accumulated and nothing held
C5_Witness ==
    /\ fetch_call.status = "raised"
    /\ Len(resps) = 3
    /\ Len(items) >= 2
    /\ ~cq_items.present

\* C14, in every state: the first request of a fetch has no cursor, the k-th has
\* the cursor of the (k-1)-th response, which is in and was a 2xx, and the requests
\* not yet answered are one while a GET is out and none otherwise
C14_Chained ==
    /\ (reqs # <<>>) => reqs[1].next_page_token = Null
    /\ \A k \in 2..Len(reqs) :
            /\ Len(resps) >= k - 1
            /\ resps[k - 1].ok
            /\ reqs[k].next_page_token = resps[k - 1].data.next_page_token
            /\ reqs[k].next_page_token # Null
    /\ Len(reqs) - Len(resps) = (IF pc = "page_get" THEN 1 ELSE 0)

\* C14, on the step a request goes out: none was out, and every earlier request of
\* the fetch has its response
C14_OnRequest ==
    (reqs' # reqs /\ reqs' # <<>>) =>
        /\ pc # "page_get"
        /\ pc' = "page_get"
        /\ Len(resps') = Len(reqs') - 1
        /\ \A k \in 1..(Len(reqs') - 1) : reqs'[k] = reqs[k] /\ resps'[k] = resps[k]

\* C14: the page requests of one fetch go out one at a time and are chained by
\* cursor: the first without a cursor, each later one only after the response to the
\* one before it, and with exactly that response's cursor.
C14_PagesSequentialAndChained == [](C14_Chained) /\ [][C14_OnRequest]_vars

\* the third request is out, with the second response's cursor, which differs from
\* the first's
C14_Witness ==
    /\ pc = "page_get"
    /\ Len(reqs) = 3
    /\ Len(resps) = 2
    /\ reqs[2].next_page_token = "c1"
    /\ reqs[3].next_page_token = "c2"
    /\ resps[2].data.next_page_token = "c2"

-----------------------------------------------------------------------------
(* The result cache over time: both accounts, each with its own token, both *)
(* windows, one-page fetches that succeed                                   *)

TokenOf(c) == IF c = TheCreds THEN "t1" ELSE "t2"

NextCache ==
    \/ \E c \in CompleteCreds : SubmitCreds(c, TRUE)
    \/ TokenIssued(TokenOf(auth_call.creds))
    \/ \E w \in Windows : ClickFetch(w)
    \/ PageAnswered(DataOf(fetch_call.window))
    \/ Tick(ShortStep)

SpecCache == Init /\ [][NextCache]_vars

\* a list_call_queue_analytics call begins in this step
FetchCallStarts == fetch_call'.n # fetch_call.n

\* C9, on the step a call begins: the entry stored under exactly (token, window)
\* decides; younger than 90 s it is handed over with no request, otherwise (no entry
\* under that token and window, or one of 90 s or more) the first request goes out
C9_OnCall ==
    FetchCallStarts =>
        LET e == result_cache[<<fetch_call'.token, fetch_call'.window>>]
        IN  /\ fetch_call'.token = zoom_token
            /\ (e.present /\ now < e.at + RESULT_TTL) =>
                    /\ fetch_call'.status = "returned"
                    /\ reqs' = <<>>
                    /\ pc' = "idle"
                    /\ cq_items' = Lst(e.value)
                    /\ result_cache' = result_cache
            /\ ~(e.present /\ now < e.at + RESULT_TTL) =>
                    /\ fetch_call'.status = "running"
                    /\ Len(reqs') = 1
                    /\ pc' = "page_get"

\* C9, on the step a fetch returns: its list is stored under its own (token, window),
\* stamped now, and no other entry changes
C9_OnReturn ==
    (pc = "page_get" /\ fetch_call'.status = "returned") =>
        result_cache' =
            [result_cache EXCEPT ![<<fetch_call.token, fetch_call.window>>] =
                [present |-> TRUE, value |-> cq_items'.v, at |-> now]]

\* C9: the result cache is keyed by (token, window): a run with the token and window
\* of a successful run less than 90 s old sends no page request and hands over that
\* run's record list; with another token or window, or 90 s or more later, it queries
\* the provider again.
C9_ResultCacheKeyedByTokenAndWindow == [][C9_OnCall /\ C9_OnReturn]_vars

\* served 45 s after the run that stored it, while the same window under the other
\* token has an entry of its own
C9_Witness ==
    /\ fetch_call.status = "returned"
    /\ fetch_call.hit
    /\ reqs = <<>>
    /\ now = result_cache[<<fetch_call.token, fetch_call.window>>].at + ShortStep
    /\ \E tok \in Tokens \ {fetch_call.token} :
            /\ result_cache[<<tok, fetch_call.window>>].present
            /\ result_cache[<<tok, fetch_call.window>>].at = now

-----------------------------------------------------------------------------
(* Page sizes below, at and above the cap: one account, fetches of several pages *)
(* that succeed or fail, no clock                                               *)

\* a page with a cursor, and a last page
SessionBodies ==
    {Body(Lst(<<"r1">>), Absent, Absent, Absent, "c1"),
     Body(Lst(<<"r2">>), Absent, Absent, Absent, Null)}

NextSizes ==
    \/ SubmitCreds(TheCreds, TRUE)
    \/ TokenIssued(TokenOf(auth_call.creds))
    \/ \E w \in AllWindows : ClickFetch(w)
    \/ \E data \in SessionBodies : PageAnswered(data)
    \/ \E error \in NetErrors : PageFailed(error)
    \/ NextPage

SpecSizes == Init /\ [][NextSizes]_vars

\* C12: every page request of a fetch, the first and each later one, carries as
\* page_size the size the fetch was called with when that is at most 300, and 300
\* when it is more.
C12_PageSizeClamped ==
    \A i \in 1..Len(reqs) :
        LET n == fetch_call.window.page_size
        IN  /\ (n <= 300) => reqs[i].page_size = n
            /\ (n > 300) => reqs[i].page_size = 300

\* a fetch called with 500 has sent its third request, and it says 300
C12_Witness ==
    /\ fetch_call.window.page_size = 500
    /\ Len(reqs) = 3
    /\ reqs[3].page_size = 300
    /\ reqs[1].page_size = 300

-----------------------------------------------------------------------------
(* One session over time: one account, both windows, fetches of several pages *)
(* that succeed or fail, both clock steps                                     *)

NextSession ==
    \/ SubmitCreds(TheCreds, TRUE)
    \/ TokenIssued(TokenOf(auth_call.creds))
    \/ \E w \in Windows : ClickFetch(w)
    \/ \E data \in SessionBodies : PageAnswered(data)
    \/ \E error \in NetErrors : PageFailed(error)
    \/ NextPage
    \/ \E d \in {ShortStep, LongStep} : Tick(d)

SpecSession == Init /\ [][NextSession]_vars

\* a page request goes out in this step
RequestGoesOut == reqs' # reqs /\ reqs' # <<>>

\* on the step a page request goes out: its bearer token is the one the last
\* exchange for the account issued, and less than 55 minutes have passed since
C16_OnRequest ==
    RequestGoesOut =>
        LET r == reqs'[Len(reqs')]
            e == token_cache[TheCreds]
        IN  /\ e.present
            /\ r.authorization = <<"Bearer", e.value>>
            /\ now < e.at + 55 * 60

\* C16: whatever the sequence of authentications and fetches in a session, every
\* page request carries a bearer token issued less than 55 minutes before the
\* request goes out.
C16_NoStaleBearer == [][C16_OnRequest]_vars

\* every page request carries the token the session holds
BearerIsSessionToken ==
    \A i \in 1..Len(reqs) : reqs[i].authorization = <<"Bearer", zoom_token>>

\* C17, on every step that leaves a fetch running or failed: the session's record
\* list and the result cache are not written
C17_OnFetchStep ==
    (fetch_call'.status \in {"running", "raised"}) =>
        /\ cq_items' = cq_items
        /\ result_cache' = result_cache

\* C17, on the step the next fetch begins, for the window (and token) of the fetch
\* that failed: it is not served from the cache, its first request goes out
C17_OnNextFetch ==
    (fetch_call'.n # fetch_call.n /\ fetch_call.status = "raised"
        /\ fetch_call'.window = fetch_call.window /\ fetch_call'.token = fetch_call.token) =>
        /\ ~fetch_call'.hit
        /\ fetch_call'.status = "running"
        /\ Len(reqs') = 1
        /\ pc' = "page_get"

\* C17, after a fetch has failed: the cache has no entry younger than 90 s for its
\* window; and at all times the session's record list is the list of a fetch that
\* returned, or absent when none has
C17_AfterFailure ==
    /\ (fetch_call.status = "raised") =>
            LET e == result_cache[<<fetch_call.token, fetch_call.window>>]
            IN  ~(e.present /\ now < e.at + 90)
    /\ cq_items.present =>
            \E k \in FetchKeys : result_cache[k].present /\ result_cache[k].value = cq_items.v
    /\ ~cq_items.present => \A k \in FetchKeys : ~result_cache[k].present

\* C17: a fetch that fails on a page error or timeout writes nothing: the session's
\* record list stays what it was when the fetch began (the list of the last fetch
\* that returned, or none), the result cache gets no entry for the window, and the
\* next fetch of that window queries the provider again.
C17_FailedFetchWritesNothing ==
    [](C17_AfterFailure) /\ [][C17_OnFetchStep /\ C17_OnNextFetch]_vars

\* a fetch failed on its second page, 90 s after a fetch of the same window had
\* returned: the session still holds that fetch's list, not the page just read
C17_Witness ==
    LET e == result_cache[<<fetch_call.token, fetch_call.window>>]
    IN  /\ fetch_call.status = "raised"
        /\ Len(resps) = 2
        /\ items = <<"r1">>
        /\ cq_items = Lst(<<"r2">>)
        /\ e = [present |-> TRUE, value |-> <<"r2">>, at |-> now - 2 * ShortStep]

-----------------------------------------------------------------------------
(* build_aht_df on every list of at most MaxItems raw records *)

InitNorm ==
    /\ now = 0
    /\ ticks = 0
    /\ pc = "idle"
    /\ token_cache = [c \in AllCreds |-> NoEntry]
    /\ result_cache = [k \in FetchKeys |-> NoResult]
    /\ zoom_token = Null
    /\ zoom_creds = NoCreds
    /\ cq_items = NoItems
    /\ auth_call = NoAuthCall
    /\ fetch_call = NoFetchCall
    /\ items = <<>>
    /\ next_token = Null
    /\ reqs = <<>>
    /\ resps = <<>>
    /\ norm \in {CallBuild(input) : input \in RawLists}
    /\ callers = [s \in Sessions |-> NoCaller]
    /\ exchanges = {}

NextNorm ==
    \/ BuildRow
    \/ DropNA

SpecNorm == InitNorm /\ [][NextNorm]_vars

Finished == norm.status \in {"returned", "raised"}

\* the record's handle time is a number
Resolves(it) == HandleTime(it).t \in {"num", "inf"}

RECURSIVE Resolved(_, _)
\* the positions i of input, in order, whose record's handle time is a number
Resolved(input, i) ==
    IF i > Len(input) THEN <<>>
    ELSE IF Resolves(input[i]) THEN <<i>> \o Resolved(input, i + 1)
    ELSE Resolved(input, i + 1)

\* the frame holds the rows of exactly the records whose handle time is a number, in
\* input order, each with its handle time set
OutputIsResolvedSubsequence ==
    /\ norm.kept = Resolved(norm.input, 1)
    /\ Len(norm.df) = Len(norm.kept)
    /\ \A k \in 1..Len(norm.df) :
            /\ norm.df[k] = Row(norm.input[norm.kept[k]])
            /\ norm.df[k].avg_handle_time_sec.t \in {"num", "inf"}

\* C6: for every list of raw records build_aht_df returns the rows of exactly the
\* records whose handle time resolves to a number, in input order, each row with a
\* handle time.
C6_OutputIsResolvedSubsequence ==
    Finished => (norm.status = "returned" /\ OutputIsResolvedSubsequence)

\* whenever build_aht_df does return, what it returns is that subsequence
ReturnedOutputIsResolvedSubsequence ==
    (norm.status = "returned") => OutputIsResolvedSubsequence

\* C7: build_aht_df never raises, whatever the list: empty, or with fields missing,
\* null, non-numeric, infinite or not-a-number.
C7_NormalizeNeverRaises == norm.status # "raised"

\* the first of queue_name, name, call_queue_name that is present and not blank, else
\* the fallback label
FirstUsableName(it) ==
    LET usable == SelectSeq(<<it.queue_name, it.name, it.call_queue_name>>, TruthyV)
    IN  IF usable = <<>> THEN Str("Unknown Queue") ELSE Head(usable)

\* C8: every row's queue name is the record's queue_name, else its name, else its
\* call_queue_name, else the fallback label, passing over absent and blank values (so
\* a blank queue_name with a non-blank name gives name), and is never empty.
C8_QueueNameFirstUsableAlias ==
    \A i \in 1..Len(norm.rows) :
        /\ norm.rows[i].queue_name = FirstUsableName(norm.input[i])
        /\ norm.rows[i].queue_name.s # ""

\* every row's queue name is a non-empty text
QueueNameNeverEmpty ==
    \A i \in 1..Len(norm.rows) :
        norm.rows[i].queue_name.t = "str" /\ norm.rows[i].queue_name.s # ""

\* the key is in the record with a value other than null
IsPresent(v) == v.t \notin {"missing", "null"}

\* the value under the first of the three handle-time keys that is present, if any
FirstPresentTime(it) ==
    LET present == SelectSeq(<<it.avg_handle_time, it.average_handle_time,
                               it.avg_handle_time_seconds>>, IsPresent)
    IN  IF present = <<>> THEN NullV ELSE Head(present)

\* C15: the handle time of every row is the value under the first of avg_handle_time,
\* average_handle_time, avg_handle_time_seconds that is present and not null, as a
\* float; when that value does not convert, the row has no handle time and the
\* record is not in the frame, whatever the later keys hold.
C15_HandleTimeFirstPresentAlias ==
    \A i \in 1..Len(norm.rows) :
        LET v == FirstPresentTime(norm.input[i])
        IN  /\ norm.rows[i].avg_handle_time_sec = ToFloat(v)
            /\ (IsPresent(v) /\ v.t \in {"num", "inf", "nan"}) =>
                    norm.rows[i].avg_handle_time_sec = v
            /\ (IsPresent(v) /\ ToFloat(v) = NullV) =>
                    /\ norm.rows[i].avg_handle_time_sec = NullV
                    /\ (norm.status = "returned") =>
                            \A k \in 1..Len(norm.kept) : norm.kept[k] # i

\* a record with avg_handle_time "bad" and average_handle_time 150 was dropped from a
\* frame that kept the other record, whose avg_handle_time is the text "125"
C15_Witness ==
    /\ norm.status = "returned"
    /\ Len(norm.input) = 2
    /\ norm.input[1].avg_handle_time = Str("bad")
    /\ norm.input[1].average_handle_time = Num(150)
    /\ norm.input[2].avg_handle_time = Str("125")
    /\ norm.kept = <<2>>
    /\ norm.df[1].avg_handle_time_sec = Num(125)

-----------------------------------------------------------------------------
(* build_aht_df applied to its own rows *)

NextRenorm ==
    \/ BuildRow
    \/ DropNA
    \/ FeedBack

SpecRenorm == InitNorm /\ [][NextRenorm]_vars

\* C13: build_aht_df given the rows of its own frame returns a frame with a row for
\* each of them, carrying the same queue_id and queue_name (the two columns whose
\* names are also keys it reads). Stated for frames that have a row: on a frame
\* without rows the second call is build_aht_df of the empty list.
C13_NormalizeIdempotentOnSharedFields ==
    (norm.again /\ Finished /\ norm.first # <<>>) =>
        /\ norm.status = "returned"
        /\ Len(norm.df) = Len(norm.first)
        /\ \A k \in 1..Len(norm.df) :
                /\ norm.df[k].queue_id = norm.first[k].queue_id
                /\ norm.df[k].queue_name = norm.first[k].queue_name

\* the rows built from a frame's rows, before dropna, repeat queue_id and queue_name
SecondPassRowsRepeatIdAndName ==
    norm.again =>
        \A k \in 1..Len(norm.rows) :
            /\ norm.rows[k].queue_id = norm.first[k].queue_id
            /\ norm.rows[k].queue_name = norm.first[k].queue_name

\* no frame built from a frame's rows has a row: none has a handle time
SecondPassFrameIsEmpty ==
    (norm.again /\ Finished) =>
        /\ norm.df = <<>>
        /\ (norm.status = "raised") <=> (norm.first = <<>>)

====
